---- MODULE Spec2Model ----
(***************************************************************************)
(* Model of the data-access layer of the Inventory Manager application:   *)
(* the Database handle (constructor, init, insert, update, remove) over   *)
(* an SQLite store.                                                        *)
(*                                                                         *)
(* Statement texts are sequences of atoms.  Every character the code      *)
(* writes itself is one atom ("I", " ", "?", ...); a table or column name *)
(* handed in by the caller is one opaque atom, a run of identifier        *)
(* characters.  std::string::pop_back removes the last atom, which in     *)
(* every text the builders produce is a character the code wrote.         *)
(***************************************************************************)
EXTENDS Integers, Sequences, FiniteSets, TLC

(***************************************************************************)
(* Bounds of the model.                                                    *)
(***************************************************************************)
MaxId == 1        \* the store file holds rows 1..MaxId in every table
MaxMap == 2       \* largest field mapping a call is given

(***************************************************************************)
(* Values: std::variant<std::string,int,double> and SQLite's NULL.        *)
(* A text is an opaque string numbered n >= 1; text 0 stands for bytes    *)
(* read through a dangling pointer; 100+k is the text SQLite renders the  *)
(* integer k as, 200+k the text it renders the real k.0 as.               *)
(***************************************************************************)
Null == [tag |-> "null", n |-> 0]
TextV(n) == [tag |-> "text", n |-> n]
IntV(n) == [tag |-> "int", n |-> n]
RealV(n) == [tag |-> "real", n |-> n]
Garbage == TextV(0)

(***************************************************************************)
(* The schema init() declares.                                             *)
(***************************************************************************)
TableOrder == <<"category", "suppliers", "item", "user", "transaction_records">>
TableNames == {TableOrder[i] : i \in 1..Len(TableOrder)}

Col(name, type, notnull) == [name |-> name, type |-> type, notnull |-> notnull]

Columns(t) ==
    CASE t = "category" ->
           << Col("name", "TEXT", TRUE), Col("description", "TEXT", TRUE) >>
      [] t = "suppliers" ->
           << Col("name", "TEXT", TRUE), Col("address", "TEXT", TRUE),
              Col("phone", "TEXT", FALSE), Col("email", "TEXT", FALSE) >>
      [] t = "item" ->
           << Col("name", "TEXT", TRUE), Col("description", "TEXT", TRUE),
              Col("category_id", "INTEGRE", TRUE), Col("quantity", "INTEGER", TRUE),
              Col("unit_measurement", "TEXT", TRUE), Col("unit_price", "REAL", TRUE),
              Col("price", "REAL", TRUE), Col("supplier_id", "INTEGER", TRUE) >>
      [] t = "user" ->
           << Col("username", "TEXT", TRUE), Col("password", "TEXT", TRUE),
              Col("role", "TEXT", TRUE), Col("contact_info", "TEXT", TRUE) >>
      [] t = "transaction_records" ->
           << Col("item_id", "INTEGER", TRUE), Col("transaction_type", "TEXT", TRUE),
              Col("quantity", "INTEGER", TRUE), Col("transaction_date", "TEXT", TRUE),
              Col("user_id", "INTEGER", TRUE), Col("remarks", "TEXT", FALSE) >>
      [] OTHER -> << >>

ColNames(t) == {Columns(t)[i].name : i \in 1..Len(Columns(t))}
ColDef(t, c) == CHOOSE d \in {Columns(t)[i] : i \in 1..Len(Columns(t))} : d.name = c

ForeignKeys ==
    { [child |-> "item", col |-> "category_id", parent |-> "category"],
      [child |-> "item", col |-> "supplier_id", parent |-> "suppliers"],
      [child |-> "transaction_records", col |-> "item_id", parent |-> "item"],
      [child |-> "transaction_records", col |-> "user_id", parent |-> "user"] }

(***************************************************************************)
(* Column affinity of a declared type (SQLite: a declared type containing *)
(* "INT" is INTEGER, so the misspelt INTEGRE is INTEGER too), and the     *)
(* conversion a value undergoes when it is stored in a column.            *)
(***************************************************************************)
AffinityOf(type) ==
    CASE type \in {"INTEGER", "INTEGRE"} -> "INTEGER"
      [] type = "REAL" -> "REAL"
      [] OTHER -> "TEXT"

Store(type, v) ==
    LET a == AffinityOf(type) IN
    CASE a = "TEXT" /\ v.tag = "int" -> TextV(100 + v.n)
      [] a = "TEXT" /\ v.tag = "real" -> TextV(200 + v.n)
      [] a = "INTEGER" /\ v.tag = "real" -> IntV(v.n)
      [] a = "REAL" /\ v.tag = "int" -> RealV(v.n)
      [] OTHER -> v

(***************************************************************************)
(* Texts.                                                                  *)
(***************************************************************************)
PopBack(s) == SubSeq(s, 1, Len(s) - 1)

S_INSERT_INTO == <<"I","N","S","E","R","T"," ","I","N","T","O"," ">>
S_VALUES == <<" ","V","A","L","U","E","S"," ","(">>
S_UPDATE == <<"U","P","D","A","T","E"," ">>
S_SET == <<" ","S","E","T"," ">>
S_WHERE_ID == <<" ","W","H","E","R","E"," ","i","d"," ","=", " ","?",";">>
S_DELETE_FROM == <<"D","E","L","E","T","E"," ","F","R","O","M"," ">>
S_WHERE_ID_Q == <<" ","W","H","E","R","E"," ","i","d"," ","=", " ","?">>

(***************************************************************************)
(* Field mappings.  A key is the std::string the caller uses as the map   *)
(* key: a column name, optionally followed by " =".  std::map iterates in *)
(* the lexicographic order of the keys.                                   *)
(***************************************************************************)
Key(col, eq) == [col |-> col, eq |-> eq]
KeyText(k) == IF k.eq THEN <<k.col, " ", "=">> ELSE <<k.col>>

SortedCols == <<"category_id", "description", "name", "unit_price">>
ColRank(c) == CHOOSE i \in 1..Len(SortedCols) : SortedCols[i] = c
KeyLess(a, b) ==
    \/ ColRank(a.col) < ColRank(b.col)
    \/ a.col = b.col /\ ~a.eq /\ b.eq

RECURSIVE MapOrder(_)
MapOrder(ks) ==
    IF ks = {} THEN << >>
    ELSE LET least == CHOOSE k \in ks : \A o \in ks \ {k} : KeyLess(k, o)
         IN  <<least>> \o MapOrder(ks \ {least})

(***************************************************************************)
(* The statement texts insert and update build.                           *)
(***************************************************************************)
RECURSIVE InsertColumns(_)
InsertColumns(keys) ==
    IF keys = << >> THEN << >>
    ELSE KeyText(Head(keys)) \o <<",">> \o InsertColumns(Tail(keys))

RECURSIVE InsertPlaceholders(_)
InsertPlaceholders(keys) ==
    IF keys = << >> THEN << >>
    ELSE <<"?", ",", " ">> \o InsertPlaceholders(Tail(keys))

InsertSql(tableName, keys) ==
    LET sql == S_INSERT_INTO \o <<tableName>> \o <<"(", " ">> \o InsertColumns(keys)
        placeholders == S_VALUES \o InsertPlaceholders(keys)
    IN  PopBack(sql) \o PopBack(placeholders)

RECURSIVE UpdateColumns(_)
UpdateColumns(keys) ==
    IF keys = << >> THEN << >>
    ELSE KeyText(Head(keys)) \o <<"?", ",", " ">> \o UpdateColumns(Tail(keys))

UpdateSql(tableName, keys) ==
    LET sql == S_UPDATE \o <<tableName>> \o S_SET \o UpdateColumns(keys)
    IN  PopBack(PopBack(sql)) \o S_WHERE_ID

(***************************************************************************)
(* sqlite3_prepare_v2: the tokenizer and the grammar of the three         *)
(* statement shapes the mapper writes, then name resolution against the   *)
(* schema of the store.                                                    *)
(***************************************************************************)
Punct == {"(", ")", ",", "?", "=", ";"}

RECURSIVE Lex(_, _)
Lex(s, cur) ==
    LET flush == IF cur = << >> THEN << >> ELSE <<cur>> IN
    IF s = << >> THEN flush
    ELSE IF Head(s) = " " THEN flush \o Lex(Tail(s), << >>)
    ELSE IF Head(s) \in Punct THEN flush \o << <<Head(s)>> >> \o Lex(Tail(s), << >>)
    ELSE Lex(Tail(s), Append(cur, Head(s)))

Tokens(s) == Lex(s, << >>)

K_INSERT == <<"I","N","S","E","R","T">>
K_INTO == <<"I","N","T","O">>
K_VALUES == <<"V","A","L","U","E","S">>
K_UPDATE == <<"U","P","D","A","T","E">>
K_SET == <<"S","E","T">>
K_WHERE == <<"W","H","E","R","E">>
K_DELETE == <<"D","E","L","E","T","E">>
K_FROM == <<"F","R","O","M">>
Keywords == {K_INSERT, K_INTO, K_VALUES, K_UPDATE, K_SET, K_WHERE, K_DELETE, K_FROM}

IsIdent(tok) == tok \notin Keywords /\ tok[1] \notin Punct
IdentName(tok) == IF tok = <<"i","d">> THEN "id" ELSE IF Len(tok) = 1 THEN tok[1] ELSE "?"

FirstAt(T, from, tok) ==
    IF \E i \in from..Len(T) : T[i] = tok
    THEN CHOOSE i \in from..Len(T) : T[i] = tok /\ \A j \in from..(i - 1) : T[j] # tok
    ELSE 0

\* T[from..to] is  item , item , ... , item  with at least one item.
IsItem(kind, tok) == IF kind = "ident" THEN IsIdent(tok) ELSE tok = <<"?">>

IsList(T, from, to, kind) ==
    /\ to >= from
    /\ (to - from) % 2 = 0
    /\ \A i \in from..to : IF (i - from) % 2 = 0 THEN IsItem(kind, T[i]) ELSE T[i] = <<",">>

ListItems(T, from, to) == [j \in 1..((to - from) \div 2 + 1) |-> T[from + 2 * (j - 1)]]

EndsAt(T, q) == Len(T) = q \/ (Len(T) = q + 1 /\ T[q + 1] = <<";">>)

NoStmt == [ok |-> FALSE]

ParseInsert(T) ==
    LET p == FirstAt(T, 5, <<")">>)
        q == FirstAt(T, p + 3, <<")">>)
    IN  IF /\ Len(T) >= 4
           /\ T[1] = K_INSERT /\ T[2] = K_INTO /\ IsIdent(T[3]) /\ T[4] = <<"(">>
           /\ p > 0 /\ IsList(T, 5, p - 1, "ident")
           /\ Len(T) >= p + 2 /\ T[p + 1] = K_VALUES /\ T[p + 2] = <<"(">>
           /\ q > 0 /\ IsList(T, p + 3, q - 1, "param")
           /\ EndsAt(T, q)
           /\ Len(ListItems(T, 5, p - 1)) = Len(ListItems(T, p + 3, q - 1))
        THEN [ok |-> TRUE, kind |-> "insert", table |-> IdentName(T[3]),
              cols |-> [j \in 1..Len(ListItems(T, 5, p - 1)) |-> IdentName(ListItems(T, 5, p - 1)[j])],
              where |-> "",
              nparams |-> Len(ListItems(T, p + 3, q - 1))]
        ELSE NoStmt

ParseUpdate(T) ==
    LET w == FirstAt(T, 4, K_WHERE)
        n == (w - 3) \div 4
    IN  IF /\ Len(T) >= 3
           /\ T[1] = K_UPDATE /\ IsIdent(T[2]) /\ T[3] = K_SET
           /\ w >= 7 /\ w % 4 = 3
           /\ \A i \in 4..(w - 1) :
                CASE i % 4 = 0 -> IsIdent(T[i])
                  [] i % 4 = 1 -> T[i] = <<"=">>
                  [] i % 4 = 2 -> T[i] = <<"?">>
                  [] OTHER -> T[i] = <<",">>
           /\ Len(T) >= w + 3
           /\ IsIdent(T[w + 1]) /\ T[w + 2] = <<"=">> /\ T[w + 3] = <<"?">>
           /\ EndsAt(T, w + 3)
        THEN [ok |-> TRUE, kind |-> "update", table |-> IdentName(T[2]),
              cols |-> [j \in 1..n |-> IdentName(T[4 * j])],
              where |-> IdentName(T[w + 1]),
              nparams |-> n + 1]
        ELSE NoStmt

ParseDelete(T) ==
    IF /\ Len(T) >= 7
       /\ T[1] = K_DELETE /\ T[2] = K_FROM /\ IsIdent(T[3]) /\ T[4] = K_WHERE
       /\ IsIdent(T[5]) /\ T[6] = <<"=">> /\ T[7] = <<"?">>
       /\ EndsAt(T, 7)
    THEN [ok |-> TRUE, kind |-> "delete", table |-> IdentName(T[3]),
          cols |-> << >>, where |-> IdentName(T[5]), nparams |-> 1]
    ELSE NoStmt

Parse(sql) ==
    LET T == Tokens(sql) IN
    IF T = << >> THEN NoStmt
    ELSE CASE T[1] = K_INSERT -> ParseInsert(T)
           [] T[1] = K_UPDATE -> ParseUpdate(T)
           [] T[1] = K_DELETE -> ParseDelete(T)
           [] OTHER -> NoStmt

WellFormed(sql) == Parse(sql).ok

(***************************************************************************)
(* State.                                                                  *)
(***************************************************************************)
VARIABLES
    db,        \* the sqlite3 handle: "open", or "sick" when sqlite3_open failed
    fkOn,      \* foreign-key enforcement of the connection
    tables,    \* tables of the store
    rows,      \* rows[t]: id -> column -> value
    seq,       \* sqlite_sequence: largest id AUTOINCREMENT has handed out
    cerr,      \* state of std::cerr: "good" or "bad"
    alive,     \* the process has not been terminated
    inited,    \* init() has returned on this handle
    last       \* the last call: its arguments, what it did and its result

vars == <<db, fkOn, tables, rows, seq, cerr, alive, inited, last>>

NoMap == [k \in {} |-> Null]

Call(op) ==
    [op |-> op, table |-> "", id |-> 0, map |-> NoMap,
     handed |-> FALSE, prepared |-> FALSE, binds |-> << >>, stepped |-> FALSE,
     changes |-> 0, ret |-> FALSE, logged |-> << >>, attempts |-> << >>,
     again |-> FALSE]

(***************************************************************************)
(* The store files a handle may be opened on: a new file, or the file of  *)
(* an earlier session with every table and rows 1..MaxId in each, row i   *)
(* of a dependent table referencing row i of its parents.                 *)
(***************************************************************************)
SeedValue(t, c, i) ==
    IF \E fk \in ForeignKeys : fk.child = t /\ fk.col = c THEN IntV(i)
    ELSE IF ~ColDef(t, c).notnull THEN Null
    ELSE CASE AffinityOf(ColDef(t, c).type) = "TEXT" -> TextV(1)
           [] AffinityOf(ColDef(t, c).type) = "INTEGER" -> IntV(1)
           [] OTHER -> RealV(1)

SeedRows == [t \in TableNames |-> [i \in 1..MaxId |-> [c \in ColNames(t) |-> SeedValue(t, c, i)]]]
NoRows == [t \in TableNames |-> [i \in {} |-> Null]]

Init ==
    /\ alive = TRUE
    /\ cerr = "good"
    /\ fkOn = FALSE
    /\ inited = FALSE
    /\ last = Call("open")
    /\ \/ /\ db = "sick"
          /\ tables = {} /\ rows = NoRows /\ seq = [t \in TableNames |-> 0]
       \/ /\ db = "open"
          /\ \/ tables = {} /\ rows = NoRows /\ seq = [t \in TableNames |-> 0]
             \/ tables = TableNames /\ rows = SeedRows /\ seq = [t \in TableNames |-> MaxId]

(***************************************************************************)
(* Logging to std::cerr: nothing is written once the stream is bad.       *)
(***************************************************************************)
Log(msg) == IF cerr = "good" THEN <<msg>> ELSE << >>

(***************************************************************************)
(* Database::init.                                                         *)
(***************************************************************************)
Pragma(on, msg) == [kind |-> "pragma", table |-> "", on |-> on, ifNotExists |-> FALSE, msg |-> msg]
CreateTable(t, ifNotExists, msg) ==
    [kind |-> "create", table |-> t, on |-> FALSE, ifNotExists |-> ifNotExists, msg |-> msg]

foreignKeySupportOff == Pragma(FALSE, "Error enabling foreign keys")
foreignKeySupport == Pragma(TRUE, "Error enabling foreign keys")
categoryTableQuery == CreateTable("category", TRUE, "Error Creating Category Table")
supplierTableQuery == CreateTable("suppliers", TRUE, "Error Creating Supplier Table")
itemTableQueryNoGuard == CreateTable("item", FALSE, "Error Creating Items Table")
itemTableQuery == CreateTable("item", TRUE, "Error Creating Items Table")
userTableQuery == CreateTable("user", TRUE, "Error Creating User Table")
transactionTableQuery == CreateTable("transaction_records", TRUE, "Error Creating Transaction Table")

InitStatements ==
    << foreignKeySupport, categoryTableQuery, supplierTableQuery,
       itemTableQuery, userTableQuery, transactionTableQuery >>

\* sqlite3_exec(db, q, 0, 0, &errMsg) on connection state c.  A handle that
\* is not open is refused before *errMsg is written; otherwise *errMsg is
\* the message on failure and null on success.
sqlite3_exec(c, q) ==
    IF db # "open" THEN [rc |-> "SQLITE_MISUSE", c |-> c]
    ELSE IF q.kind = "pragma"
    THEN [rc |-> "SQLITE_OK", c |-> [c EXCEPT !.fkOn = q.on, !.errMsg = "null"]]
    ELSE IF q.table \in c.tables
    THEN IF q.ifNotExists
         THEN [rc |-> "SQLITE_OK", c |-> [c EXCEPT !.errMsg = "null"]]
         ELSE [rc |-> "SQLITE_ERROR", c |-> [c EXCEPT !.errMsg = "set"]]
    ELSE [rc |-> "SQLITE_OK",
          c |-> [c EXCEPT !.tables = @ \cup {q.table}, !.errMsg = "null"]]

\* Statements i.. of init(), one after the other.  Writing a char* that is
\* not a live message to the stream is undefined: ub is what it does, put
\* the stream into its bad state ("badbit") or end the process ("abort").
RECURSIVE RunInit(_, _, _)
RunInit(i, c, ub) ==
    IF i > Len(InitStatements) \/ ~c.alive THEN c
    ELSE LET q == InitStatements[i]
             r == sqlite3_exec(c, q)
             good == r.c.cerr = "good"
             attempt(l) == Append(r.c.attempts, [stmt |-> q.msg, rc |-> r.rc, logged |-> l])
         IN  IF r.rc = "SQLITE_OK"
             THEN RunInit(i + 1, [r.c EXCEPT !.attempts = attempt("none")], ub)
             ELSE IF r.c.errMsg = "set"
             THEN RunInit(i + 1, [r.c EXCEPT !.attempts = attempt(IF good THEN "full" ELSE "none"),
                                             !.errMsg = "freed"], ub)
             ELSE IF ub = "badbit"
             THEN RunInit(i + 1, [r.c EXCEPT !.attempts = attempt(IF good THEN "prefix" ELSE "none"),
                                             !.cerr = "bad"], ub)
             ELSE [r.c EXCEPT !.attempts = attempt(IF good THEN "prefix" ELSE "none"),
                              !.alive = FALSE]

init ==
    /\ alive
    /\ \E ub \in {"badbit", "abort"} :
         LET c == RunInit(1, [fkOn |-> fkOn, tables |-> tables, errMsg |-> "null",
                              cerr |-> cerr, alive |-> TRUE, attempts |-> << >>], ub)
         IN  /\ fkOn' = c.fkOn
             /\ tables' = c.tables
             /\ cerr' = c.cerr
             /\ alive' = c.alive
             /\ inited' = (inited \/ c.alive)
             /\ last' = [Call("init") EXCEPT !.attempts = c.attempts, !.again = inited]
    /\ UNCHANGED <<db, rows, seq>>

(***************************************************************************)
(* The arguments the calls are given: the tables and columns the mapper   *)
(* is used on, the values the getters return for them, the ids.           *)
(***************************************************************************)
MapperTables == {"category", "item"}

ModelValues(t, c) ==
    CASE t = "category" /\ c = "name" -> {TextV(2)}
      [] t = "category" /\ c = "description" -> {TextV(2)}
      [] t = "item" /\ c = "category_id" -> {IntV(1), IntV(MaxId + 1)}
      [] t = "item" /\ c = "unit_price" -> {RealV(2)}
      [] OTHER -> {}

ModelKeys(t) == {Key(c, eq) : c \in {c \in ColNames(t) : ModelValues(t, c) # {}}, eq \in BOOLEAN}
AllValues == UNION {ModelValues(t, c) : t \in MapperTables, c \in UNION {ColNames(u) : u \in MapperTables}}

Mappings(t) ==
    UNION { {m \in [D -> AllValues] : \A k \in D : m[k] \in ModelValues(t, k.col)} :
            D \in {D \in SUBSET ModelKeys(t) :
                     /\ Cardinality(D) <= MaxMap
                     /\ \A a, b \in D : a.eq = b.eq} }

FieldMappings == [t \in MapperTables |-> Mappings(t)]

CallIds == 1..(MaxId + 1)

(***************************************************************************)
(* Every statement text the calls can build, parsed once.                 *)
(***************************************************************************)
KeySets == UNION {{DOMAIN m : m \in Mappings(t)} : t \in MapperTables}
SqlTexts ==
    {InsertSql(t, MapOrder(D)) : t \in MapperTables, D \in KeySets}
      \cup {UpdateSql(t, MapOrder(D)) : t \in MapperTables, D \in KeySets}
      \cup {S_DELETE_FROM \o <<t>> \o S_WHERE_ID_Q : t \in TableNames}
Parsed == [sql \in SqlTexts |-> Parse(sql)]

(***************************************************************************)
(* sqlite3_prepare_v2(db, sql, ...): refused on a handle that is not      *)
(* open; a syntax error, an unknown table or an unknown column is an      *)
(* error.  With foreign keys enforced, a statement that has to check a    *)
(* parent table that does not exist is an error too.                      *)
(***************************************************************************)
ChecksParent(stmt, fk) ==
    /\ fk.child = stmt.table
    /\ \/ stmt.kind \in {"insert", "delete"}
       \/ \E j \in 1..Len(stmt.cols) : stmt.cols[j] = fk.col

sqlite3_prepare_v2(sql) ==
    LET stmt == Parsed[sql] IN
    IF db # "open" THEN [rc |-> "SQLITE_MISUSE", stmt |-> NoStmt]
    ELSE IF ~stmt.ok THEN [rc |-> "SQLITE_ERROR", stmt |-> NoStmt]
    ELSE IF stmt.table \notin tables THEN [rc |-> "SQLITE_ERROR", stmt |-> NoStmt]
    ELSE IF \E j \in 1..Len(stmt.cols) : stmt.cols[j] \notin ColNames(stmt.table)
    THEN [rc |-> "SQLITE_ERROR", stmt |-> NoStmt]
    ELSE IF stmt.where \notin {"", "id"} THEN [rc |-> "SQLITE_ERROR", stmt |-> NoStmt]
    ELSE IF fkOn /\ \E fk \in ForeignKeys : ChecksParent(stmt, fk) /\ fk.parent \notin tables
    THEN [rc |-> "SQLITE_ERROR", stmt |-> NoStmt]
    ELSE [rc |-> "SQLITE_OK", stmt |-> stmt]

(***************************************************************************)
(* The binding loop of insert and update: one sqlite3_bind_* call per     *)
(* entry of the mapping, in map order, index counting from 1.  The value  *)
(* bound is the loop's local variant; its scope ends with the iteration,  *)
(* so at sqlite3_step the buffer of a text is destroyed (alive = FALSE).  *)
(* SQLITE_TRANSIENT has SQLite copy the text at the call, SQLITE_STATIC   *)
(* has it keep the pointer.                                                *)
(***************************************************************************)
Bind(index, value, destructor) ==
    [idx |-> index, val |-> value, kind |-> value.tag,
     dtor |-> IF value.tag = "text" THEN destructor ELSE "none",
     alive |-> FALSE]

BindLoop(keys, map, destructor) ==
    [i \in 1..Len(keys) |-> Bind(i, map[keys[i]], destructor)]

Dangling(b) == b.kind = "text" /\ b.dtor = "SQLITE_STATIC" /\ ~b.alive

\* The values of the statement's parameters when it executes.  A bind call
\* with an index beyond the last placeholder is refused; a placeholder never
\* bound is NULL; a dangling text reads what the memory holds by then:
\* its old bytes, or (junk) something else.
Params(stmt, binds, junk) ==
    [i \in 1..stmt.nparams |->
        IF \E j \in 1..Len(binds) : binds[j].idx = i
        THEN LET b == binds[CHOOSE j \in 1..Len(binds) : binds[j].idx = i]
             IN  IF Dangling(b) /\ junk THEN Garbage ELSE b.val
        ELSE Null]

(***************************************************************************)
(* sqlite3_step of a prepared statement.                                   *)
(***************************************************************************)
Ids(t) == DOMAIN rows[t]
RefersTo(v, t) == v.tag = "int" /\ v.n \in Ids(t)

Result(rc, newRows, newSeq, n) == [rc |-> rc, rows |-> newRows, seq |-> newSeq, changes |-> n]
Failed(rc) == Result(rc, rows, seq, 0)

NextId(t) ==
    LET used == Ids(t) \cup {seq[t]} IN
    1 + CHOOSE m \in used : \A o \in used : o <= m

StepInsert(stmt, P) ==
    LET t == stmt.table
        given(c) == \E j \in 1..Len(stmt.cols) : stmt.cols[j] = c
        row == [c \in ColNames(t) |->
                  IF given(c)
                  THEN Store(ColDef(t, c).type, P[CHOOSE j \in 1..Len(stmt.cols) : stmt.cols[j] = c])
                  ELSE Null]
        id == NextId(t)
    IN  IF \E c \in ColNames(t) : ColDef(t, c).notnull /\ row[c] = Null
        THEN Failed("SQLITE_CONSTRAINT")
        ELSE IF fkOn /\ \E fk \in ForeignKeys :
                          fk.child = t /\ row[fk.col] # Null /\ ~RefersTo(row[fk.col], fk.parent)
        THEN Failed("SQLITE_CONSTRAINT")
        ELSE Result("SQLITE_DONE",
                    [rows EXCEPT ![t] = [i \in Ids(t) \cup {id} |-> IF i = id THEN row ELSE rows[t][i]]],
                    [seq EXCEPT ![t] = id], 1)

StepUpdate(stmt, P) ==
    LET t == stmt.table
        hit == {i \in Ids(t) : P[stmt.nparams] = IntV(i)}
        set(c) == \E j \in 1..Len(stmt.cols) : stmt.cols[j] = c
        new(i) == [c \in ColNames(t) |->
                     IF set(c)
                     THEN Store(ColDef(t, c).type, P[CHOOSE j \in 1..Len(stmt.cols) : stmt.cols[j] = c])
                     ELSE rows[t][i][c]]
    IN  IF \E i \in hit : \E c \in ColNames(t) : ColDef(t, c).notnull /\ new(i)[c] = Null
        THEN Failed("SQLITE_CONSTRAINT")
        ELSE IF fkOn /\ \E i \in hit : \E fk \in ForeignKeys :
                          /\ fk.child = t /\ set(fk.col)
                          /\ new(i)[fk.col] # Null /\ ~RefersTo(new(i)[fk.col], fk.parent)
        THEN Failed("SQLITE_CONSTRAINT")
        ELSE Result("SQLITE_DONE",
                    [rows EXCEPT ![t] = [i \in Ids(t) |-> IF i \in hit THEN new(i) ELSE rows[t][i]]],
                    seq, Cardinality(hit))

StepDelete(stmt, P) ==
    LET t == stmt.table
        hit == {i \in Ids(t) : P[1] = IntV(i)}
    IN  IF fkOn /\ \E i \in hit : \E fk \in ForeignKeys :
                     /\ fk.parent = t /\ fk.child \in tables
                     /\ \E r \in Ids(fk.child) : rows[fk.child][r][fk.col] = IntV(i)
        THEN Failed("SQLITE_CONSTRAINT")
        ELSE Result("SQLITE_DONE",
                    [rows EXCEPT ![t] = [i \in Ids(t) \ hit |-> rows[t][i]]],
                    seq, Cardinality(hit))

sqlite3_step(stmt, P) ==
    CASE stmt.kind = "insert" -> StepInsert(stmt, P)
      [] stmt.kind = "update" -> StepUpdate(stmt, P)
      [] OTHER -> StepDelete(stmt, P)

(***************************************************************************)
(* Database::insert.                                                       *)
(***************************************************************************)
insertReturn(path) == path = "done"

insert ==
    /\ alive
    /\ \E tableName \in MapperTables : \E fieldMapping \in FieldMappings[tableName] :
         LET keys == MapOrder(DOMAIN fieldMapping)
             sql == InsertSql(tableName, keys)
             p == sqlite3_prepare_v2(sql)
             call == [Call("insert") EXCEPT !.table = tableName, !.map = fieldMapping,
                                            !.handed = TRUE]
         IN  IF p.rc # "SQLITE_OK"
             THEN /\ last' = [call EXCEPT !.ret = insertReturn("prepare failed"),
                                          !.logged = Log("Error preparing insert statement")]
                  /\ UNCHANGED <<rows, seq>>
             ELSE LET binds == BindLoop(keys, fieldMapping, "SQLITE_TRANSIENT")
                      r == sqlite3_step(p.stmt, Params(p.stmt, binds, FALSE))
                      done == r.rc = "SQLITE_DONE"
                  IN  /\ rows' = r.rows
                      /\ seq' = r.seq
                      /\ last' = [call EXCEPT
                            !.prepared = TRUE, !.binds = binds, !.stepped = TRUE,
                            !.changes = r.changes,
                            !.ret = insertReturn(IF done THEN "done" ELSE "step failed"),
                            !.logged = IF done THEN << >>
                                       ELSE Log("Error executing INSERT statement")]
    /\ UNCHANGED <<db, fkOn, tables, cerr, alive, inited>>

(***************************************************************************)
(* Database::update.                                                       *)
(***************************************************************************)
updateReturnAlways(path) == TRUE
updateReturn(path) == path = "done"

update ==
    /\ alive
    /\ \E tableName \in MapperTables, id \in CallIds :
       \E fieldMapping \in FieldMappings[tableName] :
       \E junk \in IF \E k \in DOMAIN fieldMapping : fieldMapping[k].tag = "text"
                   THEN BOOLEAN ELSE {FALSE} :
         LET keys == MapOrder(DOMAIN fieldMapping)
             sql == UpdateSql(tableName, keys)
             p == sqlite3_prepare_v2(sql)
             call == [Call("update") EXCEPT !.table = tableName, !.id = id,
                                            !.map = fieldMapping, !.handed = TRUE]
         IN  IF p.rc # "SQLITE_OK"
             THEN /\ last' = [call EXCEPT !.ret = updateReturn("prepare failed"),
                                          !.logged = Log("Error preparing UPDATE statement")]
                  /\ UNCHANGED <<rows, seq>>
             ELSE LET loop == BindLoop(keys, fieldMapping, "SQLITE_STATIC")
                      binds == Append(loop, Bind(Len(loop) + 1, IntV(id), "none"))
                      r == sqlite3_step(p.stmt, Params(p.stmt, binds, junk))
                      done == r.rc = "SQLITE_DONE"
                  IN  /\ rows' = r.rows
                      /\ seq' = r.seq
                      /\ last' = [call EXCEPT
                            !.prepared = TRUE, !.binds = binds, !.stepped = TRUE,
                            !.changes = r.changes,
                            !.ret = updateReturn(IF done THEN "done" ELSE "step failed"),
                            !.logged = IF ~done THEN Log("Error executing update statement")
                                       ELSE IF r.changes = 0 THEN Log("No rows were updated")
                                       ELSE << >>]
    /\ UNCHANGED <<db, fkOn, tables, cerr, alive, inited>>

(***************************************************************************)
(* Database::remove: DELETE FROM table WHERE id = ?, the id bound, the    *)
(* statement executed; failure when the store rejects it.                 *)
(***************************************************************************)
removeReturn(path) == path = "done"

remove ==
    /\ alive
    /\ \E tableName \in TableNames, id \in CallIds :
         LET sql == S_DELETE_FROM \o <<tableName>> \o S_WHERE_ID_Q
             p == sqlite3_prepare_v2(sql)
             call == [Call("remove") EXCEPT !.table = tableName, !.id = id, !.handed = TRUE]
         IN  IF p.rc # "SQLITE_OK"
             THEN /\ last' = [call EXCEPT !.ret = removeReturn("prepare failed"),
                                          !.logged = Log("Error preparing delete statement")]
                  /\ UNCHANGED <<rows, seq>>
             ELSE LET binds == <<Bind(1, IntV(id), "none")>>
                      r == sqlite3_step(p.stmt, Params(p.stmt, binds, FALSE))
                      done == r.rc = "SQLITE_DONE"
                  IN  /\ rows' = r.rows
                      /\ seq' = r.seq
                      /\ last' = [call EXCEPT
                            !.prepared = TRUE, !.binds = binds, !.stepped = TRUE,
                            !.changes = r.changes,
                            !.ret = removeReturn(IF done THEN "done" ELSE "step failed"),
                            !.logged = IF done THEN << >>
                                       ELSE Log("Error executing delete statement")]
    /\ UNCHANGED <<db, fkOn, tables, cerr, alive, inited>>

Next == init \/ insert \/ update \/ remove

Spec == Init /\ [][Next]_vars

(***************************************************************************)
(* The same handle used by a caller of the mapper alone, by a caller of   *)
(* remove alone, and every call on a handle whose open failed.            *)
(***************************************************************************)
NextMapper == init \/ insert \/ update
SpecMapper == Init /\ [][NextMapper]_vars

NextStore == init \/ remove
SpecStore == Init /\ [][NextStore]_vars

InitFailedOpen == Init /\ db = "sick"
SpecFailedOpen == InitFailedOpen /\ [][Next]_vars

(***************************************************************************)
(* Vocabulary of the claims.                                               *)
(***************************************************************************)
\* The handle was opened and init() has returned on it.
Ready == db = "open" /\ inited

\* A non-empty mapping whose keys are columns of table t.
ValidMapping(t, m) ==
    /\ DOMAIN m # {}
    /\ \A k \in DOMAIN m : ~k.eq /\ k.col \in ColNames(t)

\* The values of m are ones the schema lets column c of t hold: a foreign
\* key refers to a row of its parent table.
Acceptable(t, m) ==
    \A k \in DOMAIN m : \A fk \in ForeignKeys :
        (fk.child = t /\ fk.col = k.col) => RefersTo(m[k], fk.parent)

\* m gives every required column of t.
Complete(t, m) ==
    \A c \in ColNames(t) : ColDef(t, c).notnull => \E k \in DOMAIN m : k.col = c

Mapped(m, c) == \E k \in DOMAIN m : k.col = c
ValueFor(t, m, c) == Store(ColDef(t, c).type, m[CHOOSE k \in DOMAIN m : k.col = c])

StatementText(call) ==
    IF call.op = "insert" THEN InsertSql(call.table, MapOrder(DOMAIN call.map))
    ELSE UpdateSql(call.table, MapOrder(DOMAIN call.map))

Referenced(t, id) ==
    \E fk \in ForeignKeys :
        fk.parent = t /\ \E r \in Ids(fk.child) : rows[fk.child][r][fk.col] = IntV(id)

\* The foreign-key columns that point at a missing row.
Orphans ==
    {<<fk.child, r, fk.col>> : fk \in ForeignKeys, r \in 1..(MaxId + 1)} \cap
    {x \in UNION {{<<fk.child, r, fk.col>> : r \in Ids(fk.child)} : fk \in ForeignKeys} :
        \E fk \in ForeignKeys :
            /\ fk.child = x[1] /\ fk.col = x[3]
            /\ rows[x[1]][x[2]][x[3]] # Null
            /\ ~RefersTo(rows[x[1]][x[2]][x[3]], fk.parent)}

(***************************************************************************)
(* C1.  On a handle that was opened and initialised, insert with a        *)
(* non-empty mapping of valid columns (one that gives every required      *)
(* column an acceptable value) returns true, and the table then holds a   *)
(* row whose mapped columns are the extracted values.                     *)
(***************************************************************************)
C1_InsertStoresRow ==
    (/\ last.op = "insert" /\ Ready
     /\ ValidMapping(last.table, last.map)
     /\ Complete(last.table, last.map) /\ Acceptable(last.table, last.map))
    => /\ last.ret
       /\ \E i \in Ids(last.table) :
            \A k \in DOMAIN last.map :
                rows[last.table][i][k.col] = ValueFor(last.table, last.map, k.col)

(***************************************************************************)
(* C2.  update of an existing id with a non-empty mapping of valid        *)
(* columns returns true; afterwards that row holds the extracted values   *)
(* in the mapped columns, and every other column and every other row is   *)
(* as before.                                                              *)
(***************************************************************************)
C2_UpdateSetsMappedColumns ==
    [][ (/\ last'.op = "update" /\ db = "open"
         /\ last'.table \in tables /\ last'.id \in Ids(last'.table)
         /\ ValidMapping(last'.table, last'.map) /\ Acceptable(last'.table, last'.map))
        => LET t == last'.table
               id == last'.id
           IN  /\ last'.ret
               /\ rows' = [rows EXCEPT ![t][id] =
                             [c \in ColNames(t) |->
                                IF Mapped(last'.map, c) THEN ValueFor(t, last'.map, c)
                                ELSE rows[t][id][c]]] ]_vars

(***************************************************************************)
(* C3.  update with an id that matches no row of the table returns true   *)
(* and leaves every row of the store unchanged; the case is only logged.  *)
(***************************************************************************)
C3_UpdateMissingIdSucceeds ==
    [][ (/\ last'.op = "update" /\ db = "open"
         /\ last'.table \in tables /\ last'.id \notin Ids(last'.table)
         /\ ValidMapping(last'.table, last'.map) /\ Acceptable(last'.table, last'.map))
        => /\ last'.ret
           /\ last'.logged = <<"No rows were updated">>
           /\ rows' = rows ]_vars

(***************************************************************************)
(* C5.  insert and update with an empty mapping never hand a malformed    *)
(* statement to the store: the text built from zero columns is            *)
(* well-formed, or no statement is prepared.                              *)
(***************************************************************************)
C5_EmptyMappingWellFormed ==
    (last.op \in {"insert", "update"} /\ DOMAIN last.map = {} /\ last.handed)
    => WellFormed(StatementText(last))

(***************************************************************************)
(* C7.  Every init() call attempts its six statements, in the order       *)
(* foreign keys, category, suppliers, item, user, transaction_records,    *)
(* each once, and logs every statement that fails.                        *)
(***************************************************************************)
C7_InitAttemptsAllInOrder ==
    last.op = "init"
    => /\ Len(last.attempts) = Len(InitStatements)
       /\ \A i \in 1..Len(last.attempts) :
            /\ last.attempts[i].stmt = InitStatements[i].msg
            /\ last.attempts[i].rc # "SQLITE_OK" => last.attempts[i].logged = "full"

(***************************************************************************)
(* C9.  insert and update with a mapping of n valid columns bind          *)
(* placeholder i to the value of the i-th column of the mapping, with the *)
(* kind of its variant tag, for every i in 1..n; update binds the id      *)
(* last, to placeholder n+1; no placeholder is left unbound or bound      *)
(* twice.                                                                  *)
(***************************************************************************)
C9_BindsInMappingOrder ==
    (/\ last.op \in {"insert", "update"} /\ db = "open" /\ last.table \in tables
     /\ ValidMapping(last.table, last.map))
    => LET keys == MapOrder(DOMAIN last.map)
           n == Len(keys)
       IN  /\ Len(last.binds) = IF last.op = "update" THEN n + 1 ELSE n
           /\ \A i \in 1..n :
                /\ last.binds[i].idx = i
                /\ last.binds[i].val = last.map[keys[i]]
                /\ last.binds[i].kind = last.map[keys[i]].tag
           /\ last.op = "update" =>
                last.binds[n + 1].idx = n + 1 /\ last.binds[n + 1].val = IntV(last.id)

(***************************************************************************)
(* C10.  When insert or update executes its statement, every text bound   *)
(* to it is still valid: SQLite copied it at the bind, or its buffer has  *)
(* not been destroyed since.                                               *)
(***************************************************************************)
C10_BoundTextValidAtStep ==
    (last.op \in {"insert", "update"} /\ last.stepped)
    => \A j \in 1..Len(last.binds) : ~Dangling(last.binds[j])

(***************************************************************************)
(* C4.  After init() on the connection, remove of a row that a dependent  *)
(* row references returns failure and deletes nothing; remove of an       *)
(* existing row nothing references returns success and leaves no row with *)
(* that id; no call makes a foreign-key column point at a missing row.    *)
(***************************************************************************)
C4_RemoveKeepsReferencedRows ==
    [][ /\ Ready => Orphans' \subseteq Orphans
        /\ (last'.op = "remove" /\ Ready)
             => LET t == last'.table
                    id == last'.id
                IN  /\ (id \in Ids(t) /\ Referenced(t, id))
                         => (~last'.ret /\ rows' = rows)
                    /\ (id \in Ids(t) /\ ~Referenced(t, id))
                         => /\ last'.ret
                            /\ rows' = [rows EXCEPT ![t] = [i \in Ids(t) \ {id} |-> rows[t][i]]] ]_vars

C4_Witness ==
    /\ last.op = "remove" /\ Ready /\ ~last.ret
    /\ last.id \in Ids(last.table)
    /\ Referenced(last.table, last.id)

(***************************************************************************)
(* C6.  A further init() call on an open handle on which init() has       *)
(* already returned reports no error and leaves the tables and the rows   *)
(* of the store as they were.                                              *)
(***************************************************************************)
C6_InitIdempotent ==
    [][ (last'.op = "init" /\ Ready)
        => /\ Len(last'.attempts) = Len(InitStatements)
           /\ \A i \in 1..Len(last'.attempts) :
                last'.attempts[i].rc = "SQLITE_OK" /\ last'.attempts[i].logged = "none"
           /\ tables' = tables
           /\ rows' = rows
           /\ fkOn' = fkOn ]_vars

C6_Witness ==
    /\ last.op = "init" /\ last.again /\ db = "open"
    /\ tables = TableNames
    /\ \E t \in TableNames : Ids(t) # {}

(***************************************************************************)
(* C8.  On a handle whose open failed, construction has completed without *)
(* ending the process, and every insert, update and remove returns        *)
(* failure and changes nothing.                                            *)
(***************************************************************************)
C8_FailedOpenAlwaysFails ==
    db = "sick"
    => /\ last.op = "open" => alive
       /\ last.op \in {"insert", "update", "remove"} => (~last.ret /\ ~last.stepped)
       /\ rows = NoRows /\ tables = {}

C8_Witness ==
    /\ db = "sick" /\ last.op = "update" /\ ~last.ret
    /\ DOMAIN last.map # {}
    /\ \A k \in DOMAIN last.map : k.eq

====
